---- MODULE Spec2Model ----
(***************************************************************************)
(* A model of matrix_interpolator.py: interpolate_matrix as a state       *)
(* machine over NumPy arrays held in a heap (so that aliasing between the  *)
(* input and the output array is expressible), its helper                  *)
(* _get_non_diagonal_neighbors, read_matrix, write_matrix and main.        *)
(*                                                                         *)
(* Floating-point values are modelled as exact rationals <<n, d>> in       *)
(* lowest terms with d > 0; the not-a-number value is <<0, 0>>.  Rounding  *)
(* and the infinities are not modelled: the grids are grids of finite      *)
(* numbers and missing markers.                                            *)
(***************************************************************************)
EXTENDS Integers, Sequences, FiniteSets, TLC

VARIABLES
    heap,                 \* reference -> ndarray: the arrays that exist
    matrix,               \* interpolate_matrix: the parameter (a reference)
    interpolated_matrix,  \* interpolate_matrix: the local (a reference)
    global_mean,          \* interpolate_matrix: the local
    r, c,                 \* interpolate_matrix: the loop variables
    neighbors,            \* interpolate_matrix: the list last collected
    at,                   \* history: the cell `neighbors` was collected for
    pc,                   \* the position in main / interpolate_matrix
    caller,               \* who called interpolate_matrix: "main" or "direct"
    visited,              \* history: the cells whose loop body has run
    visits,               \* history: how many times a loop body has run
    orig,                 \* history: the contents of the parameter at the call
    args,                 \* main: the parsed command line
    fs,                   \* the file system: the input file, the destination
    output_file_path,     \* main: the local
    input_matrix,         \* main: the local (a reference)
    result,               \* the reference interpolate_matrix returned
    exc,                  \* the exception in flight ("" for none)
    printed,              \* the messages printed so far
    phases,               \* history: the phases that completed, in order
    exit_status           \* -1 while running, then the process's exit status

vars == <<heap, matrix, interpolated_matrix, global_mean, r, c, neighbors, at, pc,
          caller, visited, visits, orig, args, fs, output_file_path,
          input_matrix, result, exc, printed, phases, exit_status>>

interpVars == <<heap, matrix, interpolated_matrix, global_mean, r, c,
                neighbors, at, visited, visits, orig>>
mainVars == <<args, fs, output_file_path, input_matrix, exc, printed, phases,
              exit_status>>

(***************************************************************************)
(* Bounds of the model.                                                    *)
(***************************************************************************)
MaxDim == 3            \* rows and columns of a grid handed to interpolate_matrix
MaxCells == 9          \* cells of such a grid
MaxShuffleCells == 6   \* cells of a grid visited in an arbitrary order
MaxFileCells == 2      \* fields of an input file given to main

(***************************************************************************)
(* Floating-point values.                                                  *)
(***************************************************************************)
Abs(x) == IF x < 0 THEN -x ELSE x

RECURSIVE GCD(_, _)
GCD(a, b) == IF b = 0 THEN a ELSE GCD(b, a % b)

NaN == <<0, 0>>

\* n / d as a float: 0 / 0 is nan (no other division by zero occurs).
Float(n, d) ==
    IF d = 0 THEN NaN
    ELSE LET g == GCD(Abs(n), d) IN <<n \div g, d \div g>>

np_isnan(v) == v[2] = 0

\* The operands are bound by a quantifier so that each is evaluated once.
FAdd(a, b) ==
    CHOOSE v \in { IF np_isnan(x) \/ np_isnan(y) THEN NaN
                   ELSE Float(x[1] * y[2] + y[1] * x[2], x[2] * y[2]) :
                   x \in {a}, y \in {b} } : TRUE

FDiv(a, k) ==
    CHOOSE v \in { IF np_isnan(x) THEN NaN ELSE Float(x[1], x[2] * k) :
                   x \in {a} } : TRUE

RECURSIVE FSum(_)
FSum(s) == IF s = <<>> THEN Float(0, 1) ELSE FAdd(Head(s), FSum(Tail(s)))

\* np.mean of a list of floats: the sum divided by the length.
np_mean(s) == FDiv(FSum(s), Len(s))

(***************************************************************************)
(* Arrays: a shape and the cells' values; cells are <<row, column>>,       *)
(* 0-indexed.                                                              *)
(***************************************************************************)
Cells(R, C) == (0 .. R - 1) \X (0 .. C - 1)

RowMajor(R, C) == [i \in 1 .. R * C |-> <<(i - 1) \div C, (i - 1) % C>>]

NoArray == [shape |-> <<0, 0>>, data |-> <<>>]

Flat(a) ==
    LET order == RowMajor(a.shape[1], a.shape[2])
    IN  [i \in 1 .. Len(order) |-> a.data[order[i]]]

NotNan(v) == ~np_isnan(v)

\* np.nanmean: the mean of the values that are not nan; nan when there is none.
np_nanmean(a) == np_mean(SelectSeq(Flat(a), NotNan))

(***************************************************************************)
(* _get_non_diagonal_neighbors: the values of the cells above, below, left *)
(* and right of (row, col) that lie inside the array, in that order (the    *)
(* faulty variant tests the right border one column early).                *)
(***************************************************************************)
neighbors_right_off_by_one(m, row, col) ==
    LET rows == m.shape[1]
        cols == m.shape[2]
    IN  (IF row > 0 THEN <<m.data[<<row - 1, col>>]>> ELSE <<>>)
        \o (IF row < rows - 1 THEN <<m.data[<<row + 1, col>>]>> ELSE <<>>)
        \o (IF col > 0 THEN <<m.data[<<row, col - 1>>]>> ELSE <<>>)
        \o (IF col < cols - 2 THEN <<m.data[<<row, col + 1>>]>> ELSE <<>>)

_get_non_diagonal_neighbors(m, row, col) ==
    LET rows == m.shape[1]
        cols == m.shape[2]
    IN  (IF row > 0 THEN <<m.data[<<row - 1, col>>]>> ELSE <<>>)
        \o (IF row < rows - 1 THEN <<m.data[<<row + 1, col>>]>> ELSE <<>>)
        \o (IF col > 0 THEN <<m.data[<<row, col - 1>>]>> ELSE <<>>)
        \o (IF col < cols - 1 THEN <<m.data[<<row, col + 1>>]>> ELSE <<>>)

(***************************************************************************)
(* interpolate_matrix, piece by piece.                                     *)
(***************************************************************************)
\* np.copy allocates a new array; the faulty variant hands back its argument.
np_copy_alias(ref) == ref

np_copy(ref) == "copy"

\* The fallback value: np.nanmean of the array, 0.0 when that is nan (and two
\* faulty variants: without the 0.0, and always 0.0).
global_mean_without_fallback(a) == np_nanmean(a)

global_mean_always_zero(a) == Float(0, 1)

GlobalMean(a) ==
    LET m == np_nanmean(a)
    IN  IF np_isnan(m) THEN Float(0, 1) ELSE m

\* The loop's test of a cell; the faulty variant takes 0.0 for missing too.
CellIsMissing_zero_sentinel(v) == v[2] = 0 \/ v[1] = 0

CellIsMissing(v) == np_isnan(v)

\* The array the neighbors are read from: the parameter (the faulty variant
\* reads the array being written).
NeighborSourceOutput == interpolated_matrix

NeighborSource == matrix

\* The filter of the collected neighbors (the faulty variant counts a missing
\* neighbor as 0.0).
NanAsZero(v) == IF np_isnan(v) THEN Float(0, 1) ELSE v

valid_neighbors_nan_as_zero(ns) == [i \in 1 .. Len(ns) |-> NanAsZero(ns[i])]

valid_neighbors(ns) == SelectSeq(ns, NotNan)

Rows == heap[interpolated_matrix].shape[1]
Cols == heap[interpolated_matrix].shape[2]

\* One run of the loop's body, for the cell (row, col).
VisitCell(row, col) ==
    /\ visited' = visited \cup {<<row, col>>}
    /\ visits' = visits + 1
    /\ IF CellIsMissing(heap[interpolated_matrix].data[<<row, col>>])
       THEN LET ns == _get_non_diagonal_neighbors(heap[NeighborSource], row, col)
                valid == valid_neighbors(ns)
            IN  /\ neighbors' = ns
                /\ at' = <<row, col>>
                /\ heap' = [heap EXCEPT ![interpolated_matrix].data[<<row, col>>] =
                              IF valid # <<>> THEN np_mean(valid) ELSE global_mean]
       ELSE UNCHANGED <<heap, neighbors, at>>

Copy ==
    /\ pc = "copy"
    /\ interpolated_matrix' = np_copy(matrix)
    /\ heap' = [heap EXCEPT ![np_copy(matrix)] = heap[matrix]]
    /\ pc' = "mean"
    /\ UNCHANGED <<matrix, global_mean, r, c, neighbors, at, visited, visits,
                   orig, caller, result, mainVars>>

ComputeGlobalMean ==
    /\ pc = "mean"
    /\ global_mean' = GlobalMean(heap[interpolated_matrix])
    /\ r' = 0
    /\ c' = 0
    /\ pc' = "loop"
    /\ UNCHANGED <<heap, matrix, interpolated_matrix, neighbors, at, visited,
                   visits, orig, caller, result, mainVars>>

\* for r in range(rows): for c in range(cols): the body, then the next cell.
LoopBody ==
    /\ pc = "loop"
    /\ r < Rows
    /\ VisitCell(r, c)
    /\ IF c + 1 < Cols
       THEN /\ c' = c + 1
            /\ r' = r
       ELSE /\ c' = 0
            /\ r' = r + 1
    /\ UNCHANGED <<matrix, interpolated_matrix, global_mean, pc, orig, caller,
                   result, mainVars>>

LoopExit ==
    /\ pc = "loop"
    /\ r = Rows
    /\ pc' = "return"
    /\ UNCHANGED <<interpVars, caller, result, mainVars>>

\* The same body run for the cells in an arbitrary order.
ShuffledBody ==
    /\ pc = "loop"
    /\ \E cell \in Cells(Rows, Cols) \ visited :
          /\ VisitCell(cell[1], cell[2])
          /\ r' = cell[1]
          /\ c' = cell[2]
    /\ UNCHANGED <<matrix, interpolated_matrix, global_mean, pc, orig, caller,
                   result, mainVars>>

ShuffledExit ==
    /\ pc = "loop"
    /\ visited = Cells(Rows, Cols)
    /\ pc' = "return"
    /\ UNCHANGED <<interpVars, caller, result, mainVars>>

Return ==
    /\ pc = "return"
    /\ result' = interpolated_matrix
    /\ pc' = IF caller = "main" THEN "interpolated" ELSE "returned"
    /\ UNCHANGED <<interpVars, caller, mainVars>>

(***************************************************************************)
(* interpolate_matrix called directly on a grid of finite numbers and      *)
(* missing markers.                                                        *)
(***************************************************************************)
InputValues == {NaN, Float(0, 1), Float(1, 1)}

Grids(limit) ==
    UNION { [shape : {<<R, C>>}, data : [Cells(R, C) -> InputValues]] :
              <<R, C>> \in {s \in (1 .. MaxDim) \X (1 .. MaxDim) : s[1] * s[2] <= limit} }

NoArgs == [input |-> <<>>, output |-> <<>>, output_file |-> <<>>]
NoFile == [exists |-> FALSE, lines |-> <<>>, writable |-> FALSE, written |-> FALSE]

InitCall(limit) ==
    /\ \E g \in Grids(limit) :
          /\ heap = [input |-> g, copy |-> NoArray]
          /\ orig = g
    /\ matrix = "input"
    /\ interpolated_matrix = "none"
    /\ global_mean = NaN
    /\ r = 0
    /\ c = 0
    /\ neighbors = <<>>
    /\ at = <<-1, -1>>
    /\ pc = "copy"
    /\ caller = "direct"
    /\ visited = {}
    /\ visits = 0
    /\ args = NoArgs
    /\ fs = NoFile
    /\ output_file_path = <<>>
    /\ input_matrix = "input"
    /\ result = "none"
    /\ exc = ""
    /\ printed = <<>>
    /\ phases = <<>>
    /\ exit_status = -1

Init == InitCall(MaxCells)

Next == Copy \/ ComputeGlobalMean \/ LoopBody \/ LoopExit \/ Return

Spec == Init /\ [][Next]_vars

InitShuffled == InitCall(MaxShuffleCells)

NextShuffled == Copy \/ ComputeGlobalMean \/ ShuffledBody \/ ShuffledExit \/ Return

SpecShuffled == InitShuffled /\ [][NextShuffled]_vars

\* The program is a single thread that always takes its next step.
FairSpec == Spec /\ WF_vars(Next)

(***************************************************************************)
(* read_matrix.  A file is a sequence of lines, a line a sequence of       *)
(* comma-separated fields.  pandas.read_csv adds na_values to its default  *)
(* missing-value strings (keep_default_na is left True), skips blank       *)
(* lines, and with dtype=float fails on a field that is no float.          *)
(***************************************************************************)
PandasDefaultNA ==
    {"", "#N/A", "#N/A N/A", "#NA", "-1.#IND", "-1.#QNAN", "-NaN", "-nan",
     "1.#IND", "1.#QNAN", "<NA>", "N/A", "NA", "NULL", "NaN", "None", "n/a",
     "nan", "null"}

na_values == {"nan"} \cup PandasDefaultNA

\* The float literals that occur in the files of the model.
FloatLiteral == [t \in {"0", "1", "0.5"} |->
                    CASE t = "0" -> Float(0, 1)
                      [] t = "1" -> Float(1, 1)
                      [] t = "0.5" -> Float(1, 2)]

ParseField(t) ==
    IF t \in na_values THEN [ok |-> TRUE, value |-> NaN]
    ELSE IF t \in DOMAIN FloatLiteral THEN [ok |-> TRUE, value |-> FloatLiteral[t]]
    ELSE [ok |-> FALSE, value |-> NaN]

NotBlank(line) == line # <<"">>

pd_read_csv(lines) ==
    LET rows == SelectSeq(lines, NotBlank)
    IN  IF rows = <<>>
        THEN [ok |-> FALSE, array |-> NoArray]     \* EmptyDataError
        ELSE IF \E i \in 1 .. Len(rows) : \E j \in 1 .. Len(rows[i]) :
                   ~ParseField(rows[i][j]).ok
        THEN [ok |-> FALSE, array |-> NoArray]     \* ValueError
        ELSE [ok |-> TRUE,
              array |-> [shape |-> <<Len(rows), Len(rows[1])>>,
                         data |-> [cell \in Cells(Len(rows), Len(rows[1])) |->
                                     ParseField(rows[cell[1] + 1][cell[2] + 1]).value]]]

(***************************************************************************)
(* main.  Paths are sequences of characters; an optional argument is <<>>  *)
(* when absent (None) and <<path>> when given.                             *)
(***************************************************************************)
None == <<>>
Some(x) == <<x>>

\* Python's truth value of an optional string: None and "" are false.
Truthy(opt) == opt # None /\ opt[1] # <<>>

\* str.rfind, 1-based, 0 when the character does not occur.
RFind(p, ch) ==
    LET S == {i \in 1 .. Len(p) : p[i] = ch}
    IN  IF S = {} THEN 0 ELSE CHOOSE i \in S : \A j \in S : j <= i

\* os.path.splitext(p)[0]: p up to its last dot, when that dot comes after
\* the last slash and after a character of the file name that is no dot.
splitext_root(p) ==
    LET sepIndex == RFind(p, "/")
        dotIndex == RFind(p, ".")
    IN  IF dotIndex > sepIndex
           /\ \E i \in sepIndex + 1 .. dotIndex - 1 : p[i] # "."
        THEN SubSeq(p, 1, dotIndex - 1)
        ELSE p

DerivedSuffix == <<"_interpolated.csv">>

ResolveOutput ==
    /\ pc = "start"
    /\ output_file_path' =
          IF Truthy(args.output) THEN args.output[1]
          ELSE IF Truthy(args.output_file) THEN args.output_file[1]
          ELSE splitext_root(args.input) \o DerivedSuffix
    /\ pc' = "read"
    /\ UNCHANGED <<interpVars, caller, result, args, fs, input_matrix, exc,
                   printed, phases, exit_status>>

\* print(Reading ...); read_matrix; print(... read successfully.)
Read ==
    /\ pc = "read"
    /\ \/ /\ ~fs.exists
          /\ exc' = "FileNotFoundError"
          /\ printed' = Append(printed, "Reading matrix from")
          /\ pc' = "except"
          /\ UNCHANGED <<heap, input_matrix, phases>>
       \/ /\ fs.exists
          /\ ~pd_read_csv(fs.lines).ok
          /\ exc' = "ValueError"
          /\ printed' = Append(printed, "Reading matrix from")
          /\ pc' = "except"
          /\ UNCHANGED <<heap, input_matrix, phases>>
       \/ /\ fs.exists
          /\ pd_read_csv(fs.lines).ok
          /\ heap' = [heap EXCEPT !.input = pd_read_csv(fs.lines).array]
          /\ input_matrix' = "input"
          /\ printed' = printed \o <<"Reading matrix from",
                                     "Input matrix read successfully.">>
          /\ phases' = Append(phases, "read")
          /\ pc' = "interpolate"
          /\ exc' = exc
    /\ UNCHANGED <<matrix, interpolated_matrix, global_mean, r, c, neighbors, at,
                   visited, visits, orig, caller, result, args, fs,
                   output_file_path, exit_status>>

\* print(Interpolating ...); the call of interpolate_matrix(input_matrix)
CallInterpolate ==
    /\ pc = "interpolate"
    /\ printed' = Append(printed, "Interpolating missing values...")
    /\ matrix' = input_matrix
    /\ orig' = heap[input_matrix]
    /\ caller' = "main"
    /\ pc' = "copy"
    /\ UNCHANGED <<heap, interpolated_matrix, global_mean, r, c, neighbors, at,
                   visited, visits, result, args, fs, output_file_path,
                   input_matrix, exc, phases, exit_status>>

\* interpolate_matrix has returned; print(Interpolation complete.)
InterpolationDone ==
    /\ pc = "interpolated"
    /\ printed' = Append(printed, "Interpolation complete.")
    /\ phases' = Append(phases, "interpolate")
    /\ pc' = "write"
    /\ UNCHANGED <<interpVars, caller, result, args, fs, output_file_path,
                   input_matrix, exc, exit_status>>

\* print(Writing ...); write_matrix; print(... written successfully.); main
\* returns and the process ends with status 0.
Write ==
    /\ pc = "write"
    /\ \/ /\ fs.writable
          /\ fs' = [fs EXCEPT !.written = TRUE]
          /\ printed' = printed \o <<"Writing interpolated matrix to",
                                     "Output matrix written successfully.">>
          /\ phases' = Append(phases, "write")
          /\ exit_status' = 0
          /\ pc' = "exited"
          /\ exc' = exc
       \/ /\ ~fs.writable
          /\ exc' = "IOError"
          /\ printed' = Append(printed, "Writing interpolated matrix to")
          /\ pc' = "except"
          /\ UNCHANGED <<fs, phases, exit_status>>
    /\ UNCHANGED <<interpVars, caller, result, args, output_file_path,
                   input_matrix>>

\* except (FileNotFoundError, ValueError, IOError): print(Error ...); exit(1)
\* (the faulty variant exits with status 0).
HandleError_exit_zero ==
    /\ pc = "except"
    /\ printed' = Append(printed, "Error")
    /\ exit_status' = 0
    /\ pc' = "exited"
    /\ UNCHANGED <<interpVars, caller, result, args, fs, output_file_path,
                   input_matrix, exc, phases>>

HandleError ==
    /\ pc = "except"
    /\ printed' = Append(printed, "Error")
    /\ exit_status' = 1
    /\ pc' = "exited"
    /\ UNCHANGED <<interpVars, caller, result, args, fs, output_file_path,
                   input_matrix, exc, phases>>

InputPaths ==
    { <<"m", ".", "c">>, <<"m">>, <<".", "c">>, <<"d", ".", "e", "/", "m">> }
OutputOptions == {None, Some(<<>>), Some(<<"o">>)}
PositionalOutputs == {None, Some(<<>>), Some(<<"p">>)}

FieldTokens == {"0", "1", "0.5", "nan", "NaN", "", "a"}

\* The files: the empty file and the rectangular files of a few fields.
Files ==
    {<<>>} \cup
    UNION { [1 .. R -> [1 .. C -> FieldTokens]] :
              <<R, C>> \in {s \in (1 .. MaxFileCells) \X (1 .. MaxFileCells) :
                              s[1] * s[2] <= MaxFileCells} }

InitMain ==
    /\ args \in [input : InputPaths, output : OutputOptions,
                 output_file : PositionalOutputs]
    /\ fs \in [exists : {TRUE}, lines : Files, writable : BOOLEAN, written : {FALSE}]
              \cup [exists : {FALSE}, lines : {<<>>}, writable : BOOLEAN,
                    written : {FALSE}]
    /\ heap = [input |-> NoArray, copy |-> NoArray]
    /\ orig = NoArray
    /\ matrix = "none"
    /\ interpolated_matrix = "none"
    /\ global_mean = NaN
    /\ r = 0
    /\ c = 0
    /\ neighbors = <<>>
    /\ at = <<-1, -1>>
    /\ pc = "start"
    /\ caller = "none"
    /\ visited = {}
    /\ visits = 0
    /\ output_file_path = <<>>
    /\ input_matrix = "none"
    /\ result = "none"
    /\ exc = ""
    /\ printed = <<>>
    /\ phases = <<>>
    /\ exit_status = -1

NextMain ==
    \/ ResolveOutput
    \/ Read
    \/ CallInterpolate
    \/ Copy
    \/ ComputeGlobalMean
    \/ LoopBody
    \/ LoopExit
    \/ Return
    \/ InterpolationDone
    \/ Write
    \/ HandleError

SpecMain == InitMain /\ [][NextMain]_vars

(***************************************************************************)
(* What the claims speak of, defined on the grid as it was at the call     *)
(* (orig), with sets of cells and cross-multiplied fractions rather than   *)
(* the program's lists and float operations.                               *)
(***************************************************************************)
Missing(g, cell) == g.data[cell] = NaN
Present(g, cell) == g.data[cell] # NaN

AllCells(g) == Cells(g.shape[1], g.shape[2])

Adjacent(a, b) ==
    \/ a[1] = b[1] /\ (a[2] = b[2] + 1 \/ b[2] = a[2] + 1)
    \/ a[2] = b[2] /\ (a[1] = b[1] + 1 \/ b[1] = a[1] + 1)

BoundedNeighbors(g, cell) == {n \in AllCells(g) : Adjacent(n, cell)}

PresentNeighbors(g, cell) == {n \in BoundedNeighbors(g, cell) : Present(g, n)}

PresentCells(g) == {n \in AllCells(g) : Present(g, n)}

\* The sum of the values of the cells S of g, as a fraction <<N, D>>.
RECURSIVE FractionSum(_, _)
FractionSum(g, S) ==
    IF S = {} THEN <<0, 1>>
    ELSE LET x == CHOOSE y \in S : TRUE
             v == g.data[x]
             rest == FractionSum(g, S \ {x})
         IN  <<v[1] * rest[2] + rest[1] * v[2], v[2] * rest[2]>>

\* v is the mean of the values of the cells S of g (S not empty).
IsMeanOf(v, g, S) ==
    LET sum == FractionSum(g, S)
    IN  /\ v[2] > 0
        /\ v[1] * sum[2] * Cardinality(S) = sum[1] * v[2]

IsZero(v) == v[2] > 0 /\ v[1] = 0

\* v is the global mean of g: the mean of its present values, 0.0 without any.
IsGlobalMeanOf(v, g) ==
    IF PresentCells(g) = {} THEN IsZero(v) ELSE IsMeanOf(v, g, PresentCells(g))

\* v is what the cell holds after interpolation of g, by the rules of the
\* algorithm read on g alone.
IsInterpolationOf(v, g, cell) ==
    IF Present(g, cell) THEN v = g.data[cell]
    ELSE IF PresentNeighbors(g, cell) # {} THEN IsMeanOf(v, g, PresentNeighbors(g, cell))
    ELSE IsGlobalMeanOf(v, g)

Copied == interpolated_matrix # "none"
Out == heap[interpolated_matrix]
Returned == result # "none"
Result == heap[result]

(***************************************************************************)
(* C1: in whatever order the cells are visited, every cell already visited *)
(* holds the value that the original grid alone determines: its own value  *)
(* when present, else the mean of its present original neighbors, else the *)
(* original grid's global mean.  No replacement written earlier for        *)
(* another missing cell enters it, so every order gives the same output.   *)
(***************************************************************************)
C1_OrderIndependent ==
    Copied => \A cell \in visited : IsInterpolationOf(Out.data[cell], orig, cell)

\* Two adjacent missing cells have both been replaced (one of them after the
\* other's replacement was written), a third cell is still to be visited, and
\* the two replacements differ.
C1_Witness ==
    /\ pc = "loop"
    /\ visited # AllCells(orig)
    /\ \E a \in visited : \E b \in visited :
          /\ Adjacent(a, b)
          /\ Missing(orig, a)
          /\ Missing(orig, b)
          /\ Out.data[a] # Out.data[b]
          /\ PresentNeighbors(orig, a) # {}

(***************************************************************************)
(* C2: interpolate_matrix terminates; when it has returned, the loop body  *)
(* has run exactly once per cell (a single pass), and the result has the   *)
(* input's dimensions and no missing cell.                                 *)
(***************************************************************************)
C2_ResultTotal ==
    Returned =>
        /\ Result.shape = orig.shape
        /\ DOMAIN Result.data = AllCells(orig)
        /\ \A cell \in AllCells(orig) : Result.data[cell] # NaN
        /\ visits = orig.shape[1] * orig.shape[2]
        /\ visited = AllCells(orig)

C2_Totality == <>(pc = "returned") /\ []C2_ResultTotal

\* A grid with every cell missing has been interpolated.
C2_Witness ==
    /\ pc = "returned"
    /\ PresentCells(orig) = {}
    /\ Cardinality(AllCells(orig)) > 1

(***************************************************************************)
(* C3: every cell present in the input holds the same value in the result; *)
(* a grid without missing cells comes back equal to the input.             *)
(***************************************************************************)
C3_PresentPreserved ==
    Returned =>
        /\ \A cell \in PresentCells(orig) : Result.data[cell] = orig.data[cell]
        /\ PresentCells(orig) = AllCells(orig) => Result.data = orig.data

\* A present 0.0 next to a missing cell that was replaced by another value.
C3_Witness ==
    /\ Returned
    /\ \E a \in AllCells(orig) : \E b \in BoundedNeighbors(orig, a) :
          /\ orig.data[a] = <<0, 1>>
          /\ Missing(orig, b)
          /\ Result.data[b] # <<0, 1>>

(***************************************************************************)
(* C4: a missing cell with at least one present bounded neighbor holds the *)
(* sum of exactly its present bounded neighbors divided by their number.   *)
(***************************************************************************)
C4_NeighborMean ==
    Returned =>
        \A cell \in AllCells(orig) :
            (Missing(orig, cell) /\ PresentNeighbors(orig, cell) # {})
                => IsMeanOf(Result.data[cell], orig, PresentNeighbors(orig, cell))

\* A missing cell with present and missing neighbors whose mean is no integer.
C4_Witness ==
    /\ Returned
    /\ \E cell \in AllCells(orig) :
          /\ Missing(orig, cell)
          /\ Cardinality(PresentNeighbors(orig, cell)) >= 2
          /\ PresentNeighbors(orig, cell) # BoundedNeighbors(orig, cell)
          /\ Result.data[cell][2] > 1

(***************************************************************************)
(* C5: a missing cell without any present bounded neighbor holds the       *)
(* global mean of the original grid, which is 0.0 when the grid has no     *)
(* present value; a grid of missing cells only comes back all 0.0.         *)
(***************************************************************************)
C5_GlobalMeanFallback ==
    Returned =>
        /\ \A cell \in AllCells(orig) :
              (Missing(orig, cell) /\ PresentNeighbors(orig, cell) = {})
                  => IsGlobalMeanOf(Result.data[cell], orig)
        /\ PresentCells(orig) = {}
              => \A cell \in AllCells(orig) : Result.data[cell] = <<0, 1>>

\* An interior missing cell whose four neighbors are missing, in a grid whose
\* global mean is not 0.0.
C5_Witness ==
    /\ Returned
    /\ \E cell \in AllCells(orig) :
          /\ Missing(orig, cell)
          /\ Cardinality(BoundedNeighbors(orig, cell)) = 4
          /\ PresentNeighbors(orig, cell) = {}
          /\ Result.data[cell] # <<0, 1>>

(***************************************************************************)
(* C6: the array given to interpolate_matrix holds at every moment what it *)
(* held at the call, and the array returned is another array.              *)
(***************************************************************************)
C6_InputUntouched ==
    /\ heap[matrix] = orig
    /\ Returned => result # matrix

\* The call has returned a result that differs from the input.
C6_Witness ==
    /\ Returned
    /\ PresentCells(orig) # AllCells(orig)
    /\ Result # heap[matrix]

(***************************************************************************)
(* C10.  The classes of cells the claim speaks of.                         *)
(***************************************************************************)
OnRowBorder(g, cell) == cell[1] = 0 \/ cell[1] = g.shape[1] - 1
OnColBorder(g, cell) == cell[2] = 0 \/ cell[2] = g.shape[2] - 1
IsCorner(g, cell) == OnRowBorder(g, cell) /\ OnColBorder(g, cell)
IsInterior(g, cell) == ~OnRowBorder(g, cell) /\ ~OnColBorder(g, cell)
IsEdge(g, cell) == ~IsCorner(g, cell) /\ ~IsInterior(g, cell)
AtLeastTwoByTwo(g) == g.shape[1] >= 2 /\ g.shape[2] >= 2
Collected == at # <<-1, -1>>

\* The values the original grid holds above, below, left and right of the
\* cell, for those of the four that are inside the grid.
FourAround(cell) ==
    <<<<cell[1] - 1, cell[2]>>, <<cell[1] + 1, cell[2]>>,
      <<cell[1], cell[2] - 1>>, <<cell[1], cell[2] + 1>>>>

InGrid(g, cell) == cell \in AllCells(g)

BoundedNeighborValues(g, cell) ==
    LET four == FourAround(cell)
        kept == SelectSeq(four, LAMBDA n : InGrid(g, n))
    IN  [i \in 1 .. Len(kept) |-> g.data[kept[i]]]

(***************************************************************************)
(* C10 as stated: the list collected for a cell has 4 entries for an       *)
(* interior cell, 2 for an edge cell that is no corner, 2 for a corner     *)
(* (read on grids of at least two rows and two columns, where a corner     *)
(* has its two neighbors).                                                 *)
(***************************************************************************)
C10_AsStated ==
    (Collected /\ AtLeastTwoByTwo(orig)) =>
        /\ IsInterior(orig, at) => Len(neighbors) = 4
        /\ IsEdge(orig, at) => Len(neighbors) = 2
        /\ IsCorner(orig, at) => Len(neighbors) = 2

(***************************************************************************)
(* C10 amended: the list collected for a cell holds the values of the      *)
(* in-bounds cells among (r-1,c), (r+1,c), (r,c-1), (r,c+1); in a grid of  *)
(* at least two rows and two columns it has 4 entries for an interior      *)
(* cell, 3 for an edge cell that is no corner and 2 for a corner.          *)
(***************************************************************************)
C10_NeighborCount ==
    Collected =>
        /\ neighbors = BoundedNeighborValues(orig, at)
        /\ Len(neighbors) = Cardinality(BoundedNeighbors(orig, at))
        /\ AtLeastTwoByTwo(orig) =>
              /\ IsInterior(orig, at) => Len(neighbors) = 4
              /\ IsEdge(orig, at) => Len(neighbors) = 3
              /\ IsCorner(orig, at) => Len(neighbors) = 2

\* The neighbors of an edge cell of a 3 x 3 grid have been collected: 3 values.
C10_Witness ==
    /\ Collected
    /\ orig.shape = <<3, 3>>
    /\ IsEdge(orig, at)
    /\ Len(neighbors) = 3

(***************************************************************************)
(* What C7 to C9 speak of.                                                 *)
(***************************************************************************)
AllPhases == <<"read", "interpolate", "write">>
IsPrefix(s, t) == Len(s) <= Len(t) /\ s = SubSeq(t, 1, Len(s))
Exited == pc = "exited"
Printed(msg) == \E i \in 1 .. Len(printed) : printed[i] = msg
InterpolationUntouched ==
    /\ interpolated_matrix = "none"
    /\ visits = 0
    /\ result = "none"
    /\ ~Printed("Interpolating missing values...")

(***************************************************************************)
(* C7: the phases of a run of main complete in the order read,             *)
(* interpolate, write; the run exits with status 0 exactly when all three  *)
(* completed; after a failed read neither interpolation nor write has run, *)
(* after a failed write nothing ran but the error report; every failed run *)
(* ends with the error message printed last and a non-zero status.         *)
(***************************************************************************)
C7_Phases ==
    /\ IsPrefix(phases, AllPhases)
    /\ (exit_status = -1) <=> ~Exited
    /\ fs.written <=> phases = AllPhases
    /\ Exited =>
          /\ (exit_status = 0) <=> (phases = AllPhases)
          /\ phases = <<>> =>
                /\ InterpolationUntouched
                /\ ~Printed("Writing interpolated matrix to")
                /\ exc \in {"FileNotFoundError", "ValueError"}
          /\ phases # AllPhases =>
                /\ exit_status # 0
                /\ exit_status # -1
                /\ printed # <<>>
                /\ printed[Len(printed)] = "Error"
          /\ exc = "IOError" =>
                /\ phases = <<"read", "interpolate">>
                /\ Len(printed) >= 2
                /\ printed[Len(printed) - 1] = "Writing interpolated matrix to"
          /\ phases = AllPhases => ~Printed("Error")

\* A run whose write failed after the read and the interpolation of a grid
\* with a missing cell.
C7_Witness ==
    /\ Exited
    /\ exc = "IOError"
    /\ exit_status = 1
    /\ visits > 0
    /\ PresentCells(orig) # AllCells(orig)

(***************************************************************************)
(* C8 as stated: the output path is the --output option whenever that is   *)
(* supplied; else the positional argument if given; else the input path    *)
(* without its final extension followed by "_interpolated.csv".            *)
(***************************************************************************)
C8_AsStated ==
    pc # "start" =>
        output_file_path =
            IF args.output # None THEN args.output[1]
            ELSE IF args.output_file # None THEN args.output_file[1]
            ELSE splitext_root(args.input) \o <<"_interpolated.csv">>

(***************************************************************************)
(* C9 as stated: read_matrix takes a field for missing only when it is the *)
(* token nan, and a file with a field that is neither a real-number        *)
(* literal nor that token makes it raise ValueError instead of returning   *)
(* a grid.                                                                 *)
(***************************************************************************)
RealLiterals == {"0", "1", "0.5"}
HasBadField(lines) ==
    \E i \in 1 .. Len(lines) : \E j \in 1 .. Len(lines[i]) :
        lines[i][j] \notin RealLiterals \cup {"nan"}

C9_AsStated ==
    (pc \notin {"start", "read"} /\ fs.exists /\ HasBadField(fs.lines)) =>
        /\ exc = "ValueError"
        /\ input_matrix = "none"

====
